---- MODULE Spec2Model ----
(***************************************************************************)
(* A model of script/apk-get.py: the Repo class (index store, artifact     *)
(* cache, installed tree) as a state machine over an abstract file system  *)
(* and an unreliable network.                                              *)
(*                                                                         *)
(* Text (package names, versions, identities, paths) is a sequence of     *)
(* one-character strings.  A file length is counted in reads: one unit is  *)
(* what one res.read(chunk) call of Repo._download returns.                *)
(*                                                                         *)
(* Four specifications share the variables: Spec (the Repo state machine), *)
(* SearchSpec (Repo.search and expand_name on bounded indexes), DeploySpec *)
(* (Repo._deploy_lib on bounded archives) and IndexSpec (main() of         *)
(* script/apk-index.py on the files of one directory).                     *)
(***************************************************************************)
EXTENDS Integers, Sequences, FiniteSets, TLC

\* ------------------------------------------------------------------ bounds

\* Length, in reads, of the longest artifact the remote repository serves.
MaxLen == 2

\* ------------------------------------------------------- the remote universe

\* The artifacts the remote repository serves.  "app" carries the lib/
\* directories of three architectures, "alias" those of two architectures
\* that map to one instruction set and of one architecture self.abis does
\* not list.
Artifacts == {"app", "alias"}

ArtLen(a) == IF a = "app" THEN MaxLen ELSE 1

ArtLibs(a) ==
    IF a = "app" THEN {"x86", "armeabi", "arm64-v8a"}
    ELSE {"armeabi", "armeabi-v7a", "riscv64"}

PathA1 == <<"a", "1">>
PathA2 == <<"a", "2">>

Paths == {PathA1, PathA2}

\* The artifact the remote serves under a path.
Served(p) == IF p = PathA1 THEN "app" ELSE "alias"

EntryA1 ==
    [package |-> <<"a">>, version |-> <<"1">>, vercode |-> 1,
     title |-> <<"T">>, path |-> PathA1, size |-> MaxLen]

EntryA2 ==
    [package |-> <<"a">>, version |-> <<"2">>, vercode |-> 2,
     title |-> <<"U">>, path |-> PathA2, size |-> 1]

\* The same identity as EntryA1 with a size the artifact does not have: the
\* length of a fragment of it.
EntryA1Resized == [EntryA1 EXCEPT !.size = 1]

\* The index documents (JSON arrays) the remote may serve.
RemoteDocs ==
    { <<EntryA1, EntryA2>>,
      <<EntryA1Resized>> }

\* ----------------------------------------------------------------- Repo.__init__

\* self.abis: the order matters
abis == <<"x86", "x86_64", "armeabi", "armeabi-v7a", "arm64-v8a", "mips", "mips64">>

\* self.abi2isa
abi2isa ==
    [a \in {abis[k] : k \in 1..Len(abis)} |->
        CASE a = "armeabi" -> "arm"
          [] a = "armeabi-v7a" -> "arm"
          [] a = "arm64-v8a" -> "arm64"
          [] OTHER -> a]

AbiSet == {abis[k] : k \in 1..Len(abis)}

\* ------------------------------------------------------------------ files

\* The cached index document: absent, unparsable (zero bytes) or a JSON array.
NoDoc == [exists |-> FALSE, json |-> FALSE, items |-> <<>>]
EmptyDoc == [exists |-> TRUE, json |-> FALSE, items |-> <<>>]
DocFile(d) == [exists |-> TRUE, json |-> TRUE, items |-> d]

\* A cached artifact: the first len reads of the artifact art.
NoFile == [exists |-> FALSE, art |-> "none", len |-> 0]
FileOf(a, n) == [exists |-> TRUE, art |-> a, len |-> n]

\* An installed package directory <installed_dir>/<name>/.  apk is "none",
\* "link" (the same inode as the cache file at path) or "own" (an inode no
\* cache path names any more, holding file).
NoDir == [dir |-> FALSE, apk |-> "none", path |-> <<>>, file |-> NoFile, libs |-> {}]
EmptyDir == [NoDir EXCEPT !.dir = TRUE]

\* What an installation holds: its directory, the content of its apk, its
\* lib/ directories.
NoSnap == [dir |-> FALSE, file |-> NoFile, libs |-> {}]

\* '-'.join([item['package'], item['version']])
Identity(item) == item.package \o <<"-">> \o item.version

AllEntries == UNION {{d[k] : k \in 1..Len(d)} : d \in RemoteDocs}

Names == {Identity(e) : e \in AllEntries}

VARIABLES
    index,       \* self.index: identity -> entry
    indexFile,   \* <cache_dir>/index.json
    tmpIndex,    \* <root_dir>/index.json, where clean() parks the index
    cacheDir,    \* <cache_dir> exists
    instDir,     \* <installed_dir> exists
    cache,       \* path -> cached artifact
    inst,        \* name -> installed package directory
    pc,          \* the position of the running operation; "idle" between calls
    arg,         \* the running operation and its arguments
    old,         \* history: the cached index when the running update() or clean() began
    exc,         \* clean(): an exception is pending while the finally block runs
    reqs,        \* the artifact requests issued by the running operation
    result,      \* what the last operation returned
    prev,        \* history: the installation of the identity when the running install began
    indexer      \* apk-index.py: the files of its root, its meta and seen, where main() is

vars == <<index, indexFile, tmpIndex, cacheDir, instDir, cache, inst,
          pc, arg, old, exc, reqs, result, prev, indexer>>

\* The state of Repo and of the files under its root.
repovars == <<index, indexFile, tmpIndex, cacheDir, instDir, cache, inst,
              pc, arg, old, exc, reqs, result, prev>>

\* apk-index.py does not run.
NoIndexer == [at |-> "none"]

fsvars == <<indexFile, tmpIndex, cacheDir, instDir, cache, inst>>

NoArg == [op |-> "none", name |-> <<>>, flag |-> FALSE, abis |-> {}]

NoIndex == <<>>

Init ==
    /\ index = NoIndex
    /\ indexFile = NoDoc
    /\ tmpIndex = NoDoc
    /\ cacheDir = FALSE
    /\ instDir = FALSE
    /\ cache = [p \in Paths |-> NoFile]
    /\ inst = [n \in Names |-> NoDir]
    /\ pc = "idle"
    /\ arg = NoArg
    /\ old = NoDoc
    /\ exc = FALSE
    /\ reqs = 0
    /\ result = "none"
    /\ prev = NoSnap
    /\ indexer = NoIndexer

\* ----------------------------------------------------------- leaving an operation

\* The operation returns r to main(): "true" for True, "fail" for None.
\* At "done" the call has returned and main() is about to report it.
Return(r) ==
    /\ pc' = "done"
    /\ exc' = FALSE
    /\ reqs' = 0
    /\ result' = r
    /\ UNCHANGED <<arg, old, index, prev, indexer>>

\* The operation raises.  main() catches nothing, so the process ends and
\* the in-memory index goes with it.
Raise ==
    /\ pc' = "done"
    /\ exc' = FALSE
    /\ reqs' = 0
    /\ result' = "raise"
    /\ index' = NoIndex
    /\ UNCHANGED <<arg, old, prev, indexer>>

\* The operation goes on at another position.
Goto(at) ==
    /\ pc' = at
    /\ UNCHANGED <<arg, old, exc, reqs, result, index, prev, indexer>>

\* ------------------------------------------------------------- Repo._load_index

WellFormed(item) == {"package", "version"} \subseteq DOMAIN item

RECURSIVE BuildIndex(_, _)
BuildIndex(items, info) ==
    IF items = <<>> THEN info
    ELSE LET item == Head(items)
             name == Identity(item)
         IN BuildIndex(Tail(items),
                       [n \in (DOMAIN info) \cup {name} |->
                           IF n = name THEN item ELSE info[n]])

\* "absent": returns None; "raise": json.load or item[...] raises; "ok": True
LoadOutcome(f) ==
    IF ~f.exists THEN "absent"
    ELSE IF ~f.json THEN "raise"
    ELSE IF \E k \in 1..Len(f.items) : ~WellFormed(f.items[k]) THEN "raise"
    ELSE "ok"

\* A faulty load: the entries are added to the index in memory.
LoadIndex_Mut(f) == BuildIndex(f.items, index)

\* info = {} filled from the items of the file; self.index = info
LoadIndex(f) == BuildIndex(f.items, NoIndex)

\* ------------------------------------------------------------------ Repo.get_info

\* Repo._cached_path: defined iff the entry exists and has a path
HasPath(name) == name \in DOMAIN index /\ "path" \in DOMAIN index[name]

CachedPath(name) == index[name].path

\* Repo._installed_path / Repo.is_installed
IsInstalledIn(t, name) == t[name].apk # "none"

is_installed(name) == IsInstalledIn(inst, name)

\* The artifact file an installed package holds.
ApkFile(c, t, name) ==
    IF t[name].apk = "link" THEN c[t[name].path]
    ELSE IF t[name].apk = "own" THEN t[name].file
    ELSE NoFile

\* A faulty is_cached: any file at the cache path counts, whatever its
\* length.
IsCachedIn_Mut(ix, c, name) ==
    /\ name \in DOMAIN ix
    /\ "path" \in DOMAIN ix[name]
    /\ c[ix[name].path].exists

\* Repo.is_cached, on the index ix and the cache c
IsCachedIn(ix, c, name) ==
    /\ name \in DOMAIN ix
    /\ "path" \in DOMAIN ix[name]
    /\ c[ix[name].path].exists
    /\ "size" \in DOMAIN ix[name]
    /\ c[ix[name].path].len = ix[name].size

is_cached(name) == IsCachedIn(index, cache, name)

\* The installation of name in the installed tree t over the cache c.
Snapshot(c, t, name) ==
    [dir |-> t[name].dir, file |-> ApkFile(c, t, name), libs |-> t[name].libs]

\* ------------------------------------------------------------ Repo._ensure_index

\* The position an operation goes on at once the index is in memory.
AfterIndex(op) ==
    IF op = "download" THEN "dl_force"
    ELSE IF op = "uninstall_all" THEN "un_all"
    ELSE "get_cached"

\* An operation that reads the index begins with arguments a: _ensure_dirs,
\* then the first get_info runs _ensure_index.
Enter(a) ==
    /\ pc = "idle"
    /\ cacheDir' = TRUE
    /\ instDir' = TRUE
    /\ UNCHANGED <<indexFile, tmpIndex, cache, inst, old>>
    /\ prev' = (IF a.op = "install" THEN Snapshot(cache, inst, a.name) ELSE NoSnap)
    /\ UNCHANGED indexer
    /\ IF DOMAIN index # {}
       THEN /\ pc' = AfterIndex(a.op)
            /\ arg' = a
            /\ result' = "none"
            /\ UNCHANGED <<index, exc, reqs>>
       ELSE CASE LoadOutcome(indexFile) = "ok" ->
                   /\ index' = LoadIndex(indexFile)
                   /\ pc' = AfterIndex(a.op)
                   /\ arg' = a
                   /\ result' = "none"
                   /\ UNCHANGED <<exc, reqs>>
              [] LoadOutcome(indexFile) = "raise" ->
                   \* json.load raises
                   /\ pc' = "done"
                   /\ arg' = a
                   /\ result' = "raise"
                   /\ UNCHANGED <<index, exc, reqs>>
              [] OTHER ->
                   \* self.update() sends its request
                   /\ pc' = "upd_connect"
                   /\ arg' = a
                   /\ result' = "none"
                   /\ UNCHANGED <<index, exc, reqs>>

\* ------------------------------------------------------------------- Repo.update

\* self._ensure_dirs(); urlopen(self.index_url) sends the request
UpdateStart ==
    /\ pc = "idle"
    /\ pc' = "upd_connect"
    /\ arg' = [NoArg EXCEPT !.op = "update"]
    /\ old' = indexFile
    /\ result' = "none"
    /\ cacheDir' = TRUE
    /\ instDir' = TRUE
    /\ UNCHANGED <<index, indexFile, tmpIndex, cache, inst, exc, reqs, prev, indexer>>

\* urlopen raises URLError: update returns None, which _ensure_index turns
\* into a RuntimeError.
UpdateConnectFail ==
    /\ pc = "upd_connect"
    /\ IF arg.op = "update" THEN Return("fail") ELSE Raise
    /\ UNCHANGED fsvars

\* urlopen succeeds, and open(self.index_file, 'w') truncates the file.
UpdateOpen ==
    /\ pc = "upd_connect"
    /\ indexFile' = EmptyDoc
    /\ Goto("upd_read")
    /\ UNCHANGED <<tmpIndex, cacheDir, instDir, cache, inst>>

\* res.read() raises while the body is read (a reset connection, an
\* incomplete read: not URLError, so nothing catches it).
UpdateReadFail ==
    /\ pc = "upd_read"
    /\ Raise
    /\ UNCHANGED fsvars

\* f.write(res.read().decode('utf-8')); return self._load_index()
UpdateWrite ==
    /\ pc = "upd_read"
    /\ UNCHANGED <<tmpIndex, cacheDir, instDir, cache, inst>>
    /\ \E d \in RemoteDocs :
          /\ indexFile' = DocFile(d)
          /\ IF LoadOutcome(DocFile(d)) = "ok"
             THEN IF arg.op = "update"
                  THEN /\ pc' = "done"
                       /\ result' = "true"
                       /\ index' = LoadIndex(DocFile(d))
                       /\ UNCHANGED <<arg, old, exc, reqs, prev, indexer>>
                  ELSE /\ pc' = AfterIndex(arg.op)
                       /\ index' = LoadIndex(DocFile(d))
                       /\ UNCHANGED <<arg, old, exc, reqs, result, prev, indexer>>
             ELSE Raise

\* -------------------------------------------------------------------- Repo.clean

\* A faulty installation: the installed artifact is a symbolic link, gone
\* with the cached file it points to.
Detach_Mut(c, t, gone) ==
    [n \in DOMAIN t |->
        IF t[n].apk = "link" /\ t[n].path \in gone
        THEN [t[n] EXCEPT !.apk = "none", !.path = <<>>]
        ELSE t[n]]

\* Paths lose their file: an installed artifact that was a hard link to one
\* of them keeps the inode to itself.
Detach(c, t, gone) ==
    [n \in DOMAIN t |->
        IF t[n].apk = "link" /\ t[n].path \in gone
        THEN [t[n] EXCEPT !.apk = "own", !.path = <<>>, !.file = c[t[n].path]]
        ELSE t[n]]

\* if os.path.exists(self.cache_dir) is false: return True at once
CleanNoCache ==
    /\ pc = "idle"
    /\ ~cacheDir
    /\ pc' = "done"
    /\ arg' = [NoArg EXCEPT !.op = "clean"]
    /\ old' = indexFile
    /\ result' = "true"
    /\ UNCHANGED <<index, fsvars, exc, reqs, prev, indexer>>

\* os.rename(self.index_file, m): FileNotFoundError when there is no cached
\* index; the finally block then runs with the exception pending.
CleanMoveOut ==
    /\ pc = "idle"
    /\ cacheDir
    /\ arg' = [NoArg EXCEPT !.op = "clean"]
    /\ old' = indexFile
    /\ result' = "none"
    /\ IF indexFile.exists
       THEN /\ tmpIndex' = indexFile
            /\ indexFile' = NoDoc
            /\ pc' = "cl_rmtree"
            /\ UNCHANGED exc
       ELSE /\ exc' = TRUE
            /\ pc' = "cl_ensure"
            /\ UNCHANGED <<indexFile, tmpIndex>>
    /\ UNCHANGED <<index, cacheDir, instDir, cache, inst, reqs, prev, indexer>>

\* A faulty clean: the index was moved to a place inside the cache
\* directory, and rmtree deletes it too.
CleanRmtree_Mut ==
    /\ pc = "cl_rmtree"
    /\ cacheDir' = FALSE
    /\ indexFile' = NoDoc
    /\ tmpIndex' = NoDoc
    /\ cache' = [p \in Paths |-> NoFile]
    /\ inst' = Detach(cache, inst, Paths)
    /\ Goto("cl_ensure")
    /\ UNCHANGED instDir

\* shutil.rmtree(self.cache_dir)
CleanRmtree ==
    /\ pc = "cl_rmtree"
    /\ cacheDir' = FALSE
    /\ indexFile' = NoDoc
    /\ cache' = [p \in Paths |-> NoFile]
    /\ inst' = Detach(cache, inst, Paths)
    /\ Goto("cl_ensure")
    /\ UNCHANGED <<tmpIndex, instDir>>

\* finally: self._ensure_dirs()
CleanEnsureDirs ==
    /\ pc = "cl_ensure"
    /\ cacheDir' = TRUE
    /\ instDir' = TRUE
    /\ Goto("cl_back")
    /\ UNCHANGED <<indexFile, tmpIndex, cache, inst>>

\* A faulty clean: the index is not moved back.
CleanMoveBack_Mut ==
    /\ pc = "cl_back"
    /\ IF exc THEN Raise ELSE Return("true")
    /\ UNCHANGED fsvars

\* finally: os.rename(m, self.index_file); then the pending exception, if
\* any, goes on to the caller.
CleanMoveBack ==
    /\ pc = "cl_back"
    /\ IF tmpIndex.exists
       THEN /\ indexFile' = tmpIndex
            /\ tmpIndex' = NoDoc
            /\ IF exc THEN Raise ELSE Return("true")
       ELSE /\ Raise
            /\ UNCHANGED <<indexFile, tmpIndex>>
    /\ UNCHANGED <<cacheDir, instDir, cache, inst>>

\* ---------------------------------------------------------------- Repo.download

DownloadStart ==
    \E n \in Names, force \in BOOLEAN :
        Enter([NoArg EXCEPT !.op = "download", !.name = n, !.flag = force])

\* A faulty forced download: nothing is unlinked.
Unlink_Mut(c, p) == c

\* os.unlink(self._cached_path(name))
Unlink(c, p) == [c EXCEPT ![p] = NoFile]

\* if force and self.is_cached(name): unlink first
\* "dl_unlinked" is "get_cached" reached through the unlink.
DownloadForce ==
    /\ pc = "dl_force"
    /\ IF arg.flag /\ is_cached(arg.name)
       THEN /\ cache' = Unlink(cache, CachedPath(arg.name))
            /\ inst' = Detach(cache, inst, {CachedPath(arg.name)})
            /\ Goto("dl_unlinked")
       ELSE /\ UNCHANGED <<cache, inst>>
            /\ Goto("get_cached")
    /\ UNCHANGED <<indexFile, tmpIndex, cacheDir, instDir>>

\* self._get_cached(name) is about to run
AtGetCached == pc \in {"get_cached", "dl_unlinked"}

\* -------------------------------------------------------------- Repo._get_cached

\* _get_cached returned dst: download returns True, install goes on.
GotPath == IF arg.op = "download" THEN Return("true") ELSE Goto("in_check")

\* A faulty _cached_path: a name the index does not have is a KeyError.
GetCachedNoPath_Mut ==
    /\ AtGetCached
    /\ ~HasPath(arg.name)
    /\ Raise
    /\ UNCHANGED fsvars

\* dst is None: the name is not in the index (or its entry has no path)
GetCachedNoPath ==
    /\ AtGetCached
    /\ ~HasPath(arg.name)
    /\ Return("fail")
    /\ UNCHANGED fsvars

GetCachedHit ==
    /\ AtGetCached
    /\ HasPath(arg.name)
    /\ is_cached(arg.name)
    /\ GotPath
    /\ UNCHANGED fsvars

\* The cache misses: _download(src, dst, size) sends the request for src.
GetCachedMiss ==
    /\ AtGetCached
    /\ HasPath(arg.name)
    /\ ~is_cached(arg.name)
    /\ pc' = "dl_connect"
    /\ reqs' = reqs + 1
    /\ UNCHANGED <<index, fsvars, arg, old, exc, result, prev, indexer>>

\* ---------------------------------------------------------------- Repo._download

\* A faulty fetch: when the connection fails, _get_cached tries again.
DownloadConnectFail_Mut ==
    /\ pc = "dl_connect"
    /\ Goto("get_cached")
    /\ UNCHANGED fsvars

\* urlopen(src) raises URLError: _download returns None, and so do
\* _get_cached and the operation.
DownloadConnectFail ==
    /\ pc = "dl_connect"
    /\ Return("fail")
    /\ UNCHANGED fsvars

\* open(dst, 'wb') and n reads of a written: a new file, or the existing
\* file rewritten in place
Write(c, p, a, n) == [c EXCEPT ![p] = FileOf(a, n)]

\* res.read(chunk) raises after n reads (a reset connection, a timeout): not
\* URLError, so the exception leaves _download and the operation; the
\* fragment stays.
DownloadReadFail ==
    /\ pc = "dl_connect"
    /\ \E n \in 0..(ArtLen(Served(CachedPath(arg.name))) - 1) :
          cache' = Write(cache, CachedPath(arg.name), Served(CachedPath(arg.name)), n)
    /\ Raise
    /\ UNCHANGED <<indexFile, tmpIndex, cacheDir, instDir, inst>>

\* Every read succeeds until res.read(chunk) returns nothing more:
\* _download returns True.
DownloadDone ==
    /\ pc = "dl_connect"
    /\ cache' = Write(cache, CachedPath(arg.name), Served(CachedPath(arg.name)),
                       ArtLen(Served(CachedPath(arg.name))))
    /\ GotPath
    /\ UNCHANGED <<indexFile, tmpIndex, cacheDir, instDir, inst>>

\* ----------------------------------------------------------------- Repo.uninstall

\* shutil.rmtree(os.path.dirname(path))
RemoveDir(t, name) == [t EXCEPT ![name] = NoDir]

\* A faulty uninstall: an absent package without force is an exception.
Uninstall_Mut ==
    /\ pc = "idle"
    /\ \E n \in Names, force \in BOOLEAN :
          /\ arg' = [NoArg EXCEPT !.op = "uninstall", !.name = n, !.flag = force]
          /\ IF is_installed(n)
             THEN /\ inst' = RemoveDir(inst, n)
                  /\ result' = "true"
             ELSE /\ UNCHANGED inst
                  /\ result' = IF force THEN "true" ELSE "raise"
    /\ pc' = "done"
    /\ UNCHANGED <<index, indexFile, tmpIndex, cacheDir, instDir, cache, old, exc, reqs, prev, indexer>>

Uninstall ==
    /\ pc = "idle"
    /\ \E n \in Names, force \in BOOLEAN :
          /\ arg' = [NoArg EXCEPT !.op = "uninstall", !.name = n, !.flag = force]
          /\ IF is_installed(n)
             THEN /\ inst' = RemoveDir(inst, n)
                  /\ result' = "true"
             ELSE /\ UNCHANGED inst
                  /\ result' = IF force THEN "true" ELSE "fail"
    /\ pc' = "done"
    /\ UNCHANGED <<index, indexFile, tmpIndex, cacheDir, instDir, cache, old, exc, reqs, prev, indexer>>

\* ------------------------------------------------------------------- Repo.install

\* The values of --abis the model installs with.
Wanted == { {"all"}, {"arm64-v8a"}, {"armeabi-v7a"} }

\* if 'all' in abis: abis = self.abis[:]
ResolveAbis(w) == IF "all" \in w THEN AbiSet ELSE w

InstallStart ==
    \E n \in Names, reinstall \in BOOLEAN, w \in Wanted :
        Enter([op |-> "install", name |-> n, flag |-> reinstall,
               abis |-> ResolveAbis(w)])

\* if self.is_installed(name): uninstall(name, force=True) or give up
InstallCheck ==
    /\ pc = "in_check"
    /\ UNCHANGED <<indexFile, tmpIndex, cacheDir, instDir, cache>>
    /\ IF is_installed(arg.name)
       THEN IF arg.flag
            THEN /\ inst' = RemoveDir(inst, arg.name)
                 /\ Goto("in_mkdir")
            ELSE /\ Return("fail")
                 /\ UNCHANGED inst
       ELSE /\ Goto("in_mkdir")
            /\ UNCHANGED inst

\* self._ensure_parent_dir(to)
InstallMkdir ==
    /\ pc = "in_mkdir"
    /\ inst' = [inst EXCEPT ![arg.name].dir = TRUE]
    /\ Goto("in_link")
    /\ UNCHANGED <<indexFile, tmpIndex, cacheDir, instDir, cache>>

\* os.link(path, to)
Link(t, name, p) == [t EXCEPT ![name].apk = "link", ![name].path = p]

InstallLink ==
    /\ pc = "in_link"
    /\ UNCHANGED <<indexFile, tmpIndex, cacheDir, instDir, cache>>
    /\ IF cache[CachedPath(arg.name)].exists
       THEN /\ inst' = Link(inst, arg.name, CachedPath(arg.name))
            /\ Goto("in_deploy")
       ELSE /\ Raise
            /\ UNCHANGED inst

\* --------------------------------------------------------------- Repo._deploy_lib

\* zipfile.ZipFile(apk) reads the archive only if the file is the whole artifact.
IsZip(f) == f.exists /\ f.art \in Artifacts /\ f.len = ArtLen(f.art)

\* zf.extract(f, d) for every entry under lib/
Extract(libs, f) == libs \cup ArtLibs(f.art)

\* A faulty turn: the rename does not look for the instruction-set
\* directory first, and replaces it.
DeployAbi_Mut(libs, abi, wanted) ==
    IF abi \notin wanted
    THEN libs \ {abi}
    ELSE IF abi2isa[abi] # abi /\ abi \in libs
         THEN (libs \ {abi}) \cup {abi2isa[abi]}
         ELSE libs

\* One turn of "for abi in self.abis" on the lib/ directories libs.
DeployAbi(libs, abi, wanted) ==
    IF abi \notin wanted
    THEN libs \ {abi}
    ELSE IF abi2isa[abi] # abi /\ abi \in libs /\ abi2isa[abi] \notin libs
         THEN (libs \ {abi}) \cup {abi2isa[abi]}
         ELSE libs

\* The first k turns of the loop.
RECURSIVE DeployTurns(_, _, _)
DeployTurns(libs, k, wanted) ==
    IF k = 0 THEN libs
    ELSE DeployAbi(DeployTurns(libs, k - 1, wanted), abis[k], wanted)

\* The lib/ directories once _deploy_lib returns.
DeployLib(libs, f, wanted) == DeployTurns(Extract(libs, f), Len(abis), wanted)

\* with zipfile.ZipFile(apk): raises BadZipFile on a fragment
DeployBadZip ==
    /\ pc = "in_deploy"
    /\ ~IsZip(ApkFile(cache, inst, arg.name))
    /\ Raise
    /\ UNCHANGED fsvars

\* _deploy_lib runs to its end: install returns True
Deploy ==
    /\ pc = "in_deploy"
    /\ IsZip(ApkFile(cache, inst, arg.name))
    /\ inst' = [inst EXCEPT ![arg.name].libs =
                   DeployLib(@, ApkFile(cache, inst, arg.name), arg.abis)]
    /\ Return("true")
    /\ UNCHANGED <<indexFile, tmpIndex, cacheDir, instDir, cache>>

\* -------------------------------------------------------------------- Repo.search

\* The characters of the model's texts, in the order of their code points:
\* the order sorted() compares str by.
Chars == <<"(", "-", ".", "1", "2", "A", "B", "T", "a", "b", "k", "p", "t", "x">>

Ord(ch) == CHOOSE k \in 1..Len(Chars) : Chars[k] = ch

\* s < t on str
Less(s, t) ==
    \E k \in 1..Len(t) :
        /\ k <= Len(s) + 1
        /\ \A j \in 1..(k - 1) : s[j] = t[j]
        /\ (k = Len(s) + 1 \/ Ord(s[k]) < Ord(t[k]))

\* A faulty sort: the new element always goes first.
Insert_Mut(x, s) == <<x>> \o s

\* One more element in a sorted list; equal elements keep their order.
RECURSIVE Insert(_, _)
Insert(x, s) ==
    IF s = <<>> THEN <<x>>
    ELSE IF Less(x, Head(s)) THEN <<x>> \o s
    ELSE <<Head(s)>> \o Insert(x, Tail(s))

\* sorted(names)
RECURSIVE Sorted(_)
Sorted(s) == IF s = <<>> THEN <<>> ELSE Insert(s[Len(s)], Sorted(SubSeq(s, 1, Len(s) - 1)))

\* flags=re.I
Lower(ch) ==
    CASE ch = "A" -> "a"
      [] ch = "B" -> "b"
      [] ch = "T" -> "t"
      [] OTHER -> ch

\* re.compile(pattern): the patterns of the model are literals, "." and an
\* opening parenthesis, which is never closed: re.error.
Compiles(pat) == \A k \in 1..Len(pat) : pat[k] # "("

\* The pattern matches text at offset k.
MatchAt(pat, text, k) ==
    \A j \in 1..Len(pat) : pat[j] = "." \/ Lower(pat[j]) = Lower(text[k + j - 1])

\* pat.search(text)
Found(pat, text) == \E k \in 1..(Len(text) - Len(pat) + 1) : MatchAt(pat, text, k)

\* for f in ("title", "path")
SearchFields == <<"title", "path">>

\* The loop over the other fields of one entry: "hit", "miss", or "raise"
\* (KeyError: the entry lacks the field).
RECURSIVE ScanFields(_, _, _)
ScanFields(info, pat, fs) ==
    IF fs = <<>> THEN "miss"
    ELSE IF Head(fs) \notin DOMAIN info THEN "raise"
    ELSE IF Found(pat, info[Head(fs)]) THEN "hit"
    ELSE ScanFields(info, pat, Tail(fs))

\* What search and expand_name give back: a list, or an exception.
Raised == [ok |-> FALSE, names |-> <<>>]

Returned(names) == [ok |-> TRUE, names |-> names]

\* for name, info in self.index.items(), in the order keys of the dict
RECURSIVE Collect(_, _, _, _, _)
Collect(ix, keys, pat, name_only, acc) ==
    IF keys = <<>> THEN Returned(acc)
    ELSE LET name == Head(keys)
         IN IF Found(pat, name)
            THEN Collect(ix, Tail(keys), pat, name_only, Append(acc, name))
            ELSE IF name_only
            THEN Collect(ix, Tail(keys), pat, name_only, acc)
            ELSE LET r == ScanFields(ix[name], pat, SearchFields)
                 IN IF r = "raise" THEN Raised
                    ELSE Collect(ix, Tail(keys), pat, name_only,
                                 IF r = "hit" THEN Append(acc, name) ELSE acc)

\* A faulty _get_latest: the entry seen last replaces the one kept,
\* whatever their vercodes.
RECURSIVE GetLatest_Mut(_, _, _)
GetLatest_Mut(ix, names, latest) ==
    IF names = <<>> THEN [ok |-> TRUE, latest |-> latest]
    ELSE LET n == Head(names)
             i == ix[n]
             p == i.package
         IN IF "vercode" \notin DOMAIN i THEN [ok |-> FALSE, latest |-> latest]
            ELSE GetLatest_Mut(ix, Tail(names),
                               [q \in (DOMAIN latest) \cup {p} |->
                                   IF q = p THEN [name |-> n, vercode |-> i.vercode]
                                   ELSE latest[q]])

\* Repo._get_latest: package -> [name, vercode], or "raise" (KeyError: an
\* entry lacks vercode)
RECURSIVE GetLatest(_, _, _)
GetLatest(ix, names, latest) ==
    IF names = <<>> THEN [ok |-> TRUE, latest |-> latest]
    ELSE LET n == Head(names)
             i == ix[n]
             p == i.package
         IN IF "vercode" \notin DOMAIN i THEN [ok |-> FALSE, latest |-> latest]
            ELSE IF p \in DOMAIN latest /\ i.vercode < latest[p].vercode
            THEN GetLatest(ix, Tail(names), latest)
            ELSE GetLatest(ix, Tail(names),
                           [q \in (DOMAIN latest) \cup {p} |->
                               IF q = p THEN [name |-> n, vercode |-> i.vercode]
                               ELSE latest[q]])

\* A faulty search: the latest entries are chosen among all the matches,
\* and the installed filter comes after.
Search_Mut(ix, t, keys, pat, name_only, latest, installed) ==
    IF ~Compiles(pat) THEN Raised
    ELSE LET m == Collect(ix, keys, pat, name_only, <<>>)
         IN IF ~m.ok THEN Raised
            ELSE LET r == Sorted(m.names)
                     keep(n) == ~installed \/ IsInstalledIn(t, n)
                 IN IF ~latest THEN Returned(SelectSeq(r, keep))
                    ELSE LET w == GetLatest(ix, r, <<>>)
                         IN IF ~w.ok THEN Raised
                            ELSE Returned(SelectSeq(r,
                                    LAMBDA n : /\ keep(n)
                                               /\ \E q \in DOMAIN w.latest :
                                                     w.latest[q].name = n))

\* Repo.search on the index ix, iterated in the order keys, and the
\* installed tree t
Search(ix, t, keys, pat, name_only, latest, installed) ==
    IF ~Compiles(pat) THEN Raised
    ELSE LET m == Collect(ix, keys, pat, name_only, <<>>)
         IN IF ~m.ok THEN Raised
            ELSE LET r == SelectSeq(Sorted(m.names),
                                    LAMBDA n : ~installed \/ IsInstalledIn(t, n))
                 IN IF ~latest THEN Returned(r)
                    ELSE LET w == GetLatest(ix, r, <<>>)
                         IN IF ~w.ok THEN Raised
                            ELSE Returned(SelectSeq(r,
                                    LAMBDA n : \E q \in DOMAIN w.latest :
                                                  w.latest[q].name = n))

\* The orders a dict with the keys of ix can be iterated in.
KeyOrders(ix) ==
    {s \in [1..Cardinality(DOMAIN ix) -> DOMAIN ix] :
        \A i, j \in DOMAIN s : i # j => s[i] # s[j]}

\* -------------------------------------------------------- main: uninstall all

\* names = [name for name, _ in repo.installed()]
UninstallAllStart == Enter([NoArg EXCEPT !.op = "uninstall_all"])

\* repo.installed(), then repo.uninstall(name, force) for every name of it
UninstallAll ==
    /\ pc = "un_all"
    /\ \E keys \in KeyOrders(index) :
          LET r == Search(index, inst, keys, <<".">>, FALSE, FALSE, TRUE)
          IN /\ r.ok
             /\ inst' = [n \in DOMAIN inst |->
                            IF \E k \in 1..Len(r.names) : r.names[k] = n
                            THEN RemoveDir(inst, n)[n]
                            ELSE inst[n]]
    /\ Return("true")
    /\ UNCHANGED <<indexFile, tmpIndex, cacheDir, instDir, cache>>

\* ------------------------------------------------------------- process boundaries

\* The process is killed while an operation runs: the files stay as they
\* are, the next process starts with an empty in-memory index.
Killed ==
    /\ pc' = "idle"
    /\ arg' = NoArg
    /\ old' = NoDoc
    /\ exc' = FALSE
    /\ reqs' = 0
    /\ result' = "none"
    /\ index' = NoIndex
    /\ prev' = NoSnap
    /\ UNCHANGED indexer

\* main() has reported the result: the next call may begin.
Finish ==
    /\ pc = "done"
    /\ pc' = "idle"
    /\ arg' = NoArg
    /\ old' = NoDoc
    /\ result' = "none"
    /\ prev' = NoSnap
    /\ UNCHANGED indexer
    /\ UNCHANGED <<index, fsvars, exc, reqs>>

\* Killed between two steps.
Crash ==
    /\ pc \notin {"idle", "done"}
    /\ Killed
    /\ UNCHANGED fsvars

\* Killed inside the read loop of _download, after n reads.
CrashInDownload ==
    /\ pc = "dl_connect"
    /\ \E n \in 0..ArtLen(Served(CachedPath(arg.name))) :
          cache' = Write(cache, CachedPath(arg.name), Served(CachedPath(arg.name)), n)
    /\ Killed
    /\ UNCHANGED <<indexFile, tmpIndex, cacheDir, instDir, inst>>

\* Killed inside _deploy_lib, after the extraction and k turns of the loop.
CrashInDeploy ==
    /\ pc = "in_deploy"
    /\ IsZip(ApkFile(cache, inst, arg.name))
    /\ \E k \in 0..Len(abis) :
          inst' = [inst EXCEPT ![arg.name].libs =
                      DeployTurns(Extract(@, ApkFile(cache, inst, arg.name)),
                                  k, arg.abis)]
    /\ Killed
    /\ UNCHANGED <<indexFile, tmpIndex, cacheDir, instDir, cache>>

\* The next command runs in a new process: Repo.__init__ again.
Restart ==
    /\ pc = "idle"
    /\ DOMAIN index # {}
    /\ index' = NoIndex
    /\ UNCHANGED <<fsvars, pc, arg, old, exc, reqs, result, prev, indexer>>

Next ==
    \/ UpdateStart \/ UpdateConnectFail \/ UpdateOpen \/ UpdateReadFail
    \/ UpdateWrite
    \/ CleanNoCache \/ CleanMoveOut \/ CleanRmtree \/ CleanEnsureDirs
    \/ CleanMoveBack
    \/ DownloadStart \/ DownloadForce
    \/ GetCachedNoPath \/ GetCachedHit \/ GetCachedMiss
    \/ DownloadConnectFail \/ DownloadReadFail \/ DownloadDone
    \/ Uninstall \/ UninstallAllStart \/ UninstallAll
    \/ InstallStart \/ InstallCheck \/ InstallMkdir \/ InstallLink
    \/ DeployBadZip \/ Deploy
    \/ Finish \/ Crash \/ CrashInDownload \/ CrashInDeploy \/ Restart

Spec == Init /\ [][Next]_vars

\* ======================================================================
\* Queries: Repo.search and expand_name on every index of a bounded size
\* ======================================================================

MaxVercode == 2

MaxKeys == 2

SearchPackages == {<<"a">>, <<"B">>}

SearchVersions == {<<"1">>, <<"2">>}

\* An entry with only the fields every entry must have.
MinimalEntry(p, v) == [package |-> p, version |-> v, path |-> p \o v, size |-> 1]

\* An entry with a title and a vercode too; the title of a-1 is "b".
FullEntry(p, v, c) ==
    [package |-> p, version |-> v, vercode |-> c,
     title |-> (IF p = <<"a">> /\ v = <<"1">> THEN <<"b">> ELSE <<"T">>),
     path |-> p \o v, size |-> 1]

SearchEntries ==
    {MinimalEntry(p, v) : p \in SearchPackages, v \in SearchVersions}
    \cup {FullEntry(p, v, c) : p \in SearchPackages, v \in SearchVersions,
                               c \in 1..MaxVercode}

SearchNames == {Identity(e) : e \in SearchEntries}

\* The indexes _load_index can build from documents of these entries.
SearchIndexes ==
    UNION {{ix \in [K -> SearchEntries] : \A n \in K : Identity(ix[n]) = n} :
              K \in {K \in SUBSET SearchNames : K # {} /\ Cardinality(K) <= MaxKeys}}

\* The patterns and names a user gives: literals, ".", an identity, and a
\* text that is no regular expression.
SearchPatterns ==
    {<<".">>, <<"a">>, <<"b">>, <<"a", "1">>, <<"a", "-", "1">>, <<"2">>, <<"(">>}

\* A package directory with its apk.
InstalledDir == [EmptyDir EXCEPT !.apk = "own", !.file = FileOf("alias", 1)]

SearchInit ==
    /\ index \in SearchIndexes
    /\ inst \in {[n \in SearchNames |-> IF n \in S THEN InstalledDir ELSE NoDir] :
                    S \in SUBSET SearchNames}
    /\ indexFile = NoDoc
    /\ tmpIndex = NoDoc
    /\ cacheDir = TRUE
    /\ instDir = TRUE
    /\ cache = [p \in Paths |-> NoFile]
    /\ pc = "idle"
    /\ arg = NoArg
    /\ old = NoDoc
    /\ exc = FALSE
    /\ reqs = 0
    /\ result = "none"
    /\ prev = NoSnap
    /\ indexer = NoIndexer

\* repo.search(pattern, name_only, latest, installed)
SearchCall ==
    /\ pc = "idle"
    /\ \E pat \in SearchPatterns, name_only, latest, installed \in BOOLEAN :
          /\ arg' = [op |-> "search", name |-> pat, name_only |-> name_only,
                     latest |-> latest, installed |-> installed]
          /\ \E keys \in KeyOrders(index) :
                result' = Search(index, inst, keys, pat, name_only, latest, installed)
    /\ pc' = "done"
    /\ UNCHANGED <<index, fsvars, old, exc, reqs, prev, indexer>>

\* expand_name(repo, name, installed) on the index ix
expand_name(ix, t, keys, name, installed) ==
    IF name \in DOMAIN ix THEN Returned(<<name>>)
    ELSE LET info == Search(ix, t, keys, name, TRUE, TRUE, installed)
         IN IF ~info.ok THEN Raised
            ELSE IF Len(info.names) = 1 THEN Returned(<<info.names[1]>>)
            ELSE Returned(<<name>>)

ExpandCall ==
    /\ pc = "idle"
    /\ \E name \in SearchPatterns \cup SearchNames, installed \in BOOLEAN :
          /\ arg' = [op |-> "expand", name |-> name, name_only |-> TRUE,
                     latest |-> TRUE, installed |-> installed]
          /\ \E keys \in KeyOrders(index) :
                result' = expand_name(index, inst, keys, name, installed)
    /\ pc' = "done"
    /\ UNCHANGED <<index, fsvars, old, exc, reqs, prev, indexer>>

SearchNext == SearchCall \/ ExpandCall \/ Finish

SearchSpec == SearchInit /\ [][SearchNext]_vars

\* ======================================================================
\* Library deployment: Repo._deploy_lib on every archive and every choice
\* of wanted architectures, with the content of the directories kept
\* ======================================================================

\* The lib/ directories an archive may hold: architectures of self.abis, an
\* instruction-set name, and a name self.abis does not list.
ArchiveDirs == {"x86", "armeabi", "armeabi-v7a", "arm", "riscv64"}

\* The architectures a user may want.
WantedAbis == (SUBSET {"x86", "armeabi", "armeabi-v7a"}) \cup {AbiSet}

\* zf.extract(f, d) for every entry under lib/, into a package directory
\* that has no lib/ yet: each directory holds the files the archive has
\* under its name.
ExtractTree(dirs) == [d \in dirs |-> d]

\* shutil.rmtree(lib_dir)
Rmtree(tree, d) == [x \in (DOMAIN tree) \ {d} |-> tree[x]]

\* os.rename(abi_dir, isa_dir)
RenameDir(tree, from, to) ==
    [x \in ((DOMAIN tree) \ {from}) \cup {to} |->
        IF x = to THEN tree[from] ELSE tree[x]]

\* A faulty turn: the rename does not look for the instruction-set
\* directory first, and replaces it.
DeployTurn_Mut(tree, abi, wanted) ==
    IF abi \notin wanted
    THEN IF abi \in DOMAIN tree THEN Rmtree(tree, abi) ELSE tree
    ELSE IF abi2isa[abi] # abi /\ abi \in DOMAIN tree
         THEN RenameDir(tree, abi, abi2isa[abi])
         ELSE tree

\* One turn of "for abi in self.abis" on the lib/ tree.
DeployTurn(tree, abi, wanted) ==
    IF abi \notin wanted
    THEN IF abi \in DOMAIN tree THEN Rmtree(tree, abi) ELSE tree
    ELSE IF abi2isa[abi] # abi /\ abi \in DOMAIN tree /\ abi2isa[abi] \notin DOMAIN tree
         THEN RenameDir(tree, abi, abi2isa[abi])
         ELSE tree

\* The first k turns of the loop.
RECURSIVE DeployLoop(_, _, _)
DeployLoop(tree, k, wanted) ==
    IF k = 0 THEN tree
    ELSE DeployTurn(DeployLoop(tree, k - 1, wanted), abis[k], wanted)

\* Repo._deploy_lib on an archive with the lib/ directories dirs
deploy_lib(dirs, wanted) == DeployLoop(ExtractTree(dirs), Len(abis), wanted)

\* self._deploy_lib(to, abis)
DeployCall ==
    /\ pc = "idle"
    /\ \E dirs \in SUBSET ArchiveDirs, wanted \in WantedAbis :
          /\ arg' = [op |-> "deploy", name |-> <<>>, libs |-> dirs, abis |-> wanted]
          /\ result' = deploy_lib(dirs, wanted)
    /\ pc' = "done"
    /\ UNCHANGED <<index, fsvars, old, exc, reqs, prev, indexer>>

DeployNext == DeployCall \/ Finish

DeploySpec == Init /\ [][DeployNext]_vars

\* ======================================================================
\* script/apk-index.py: main() on the apk files of one directory, the root
\* of the index
\* ======================================================================

\* The longest list of paths given on the command line.
MaxArgs == 2

\* What aapt reports of the apk files: package and version.
IndexedApps == {[package |-> <<"a">>, version |-> <<"1">>],
                [package |-> <<"b">>, version |-> <<"1">>]}

\* '-'.join([info[k] for k in ['package', 'version']]) + '.apk'
ApkName(info) == info.package \o <<"-">> \o info.version \o <<".", "a", "p", "k">>

\* The root directory, as a path of the command line.
RootArg == <<".">>

\* The names files of the root may have: one that is no identity, and the
\* names main() gives.
FileNames == {<<"x", ".", "a", "p", "k">>} \cup {ApkName(i) : i \in IndexedApps}

\* A file of the root: absent, or the apk of an application; orig is the
\* name the file had when apk-index.py began.
NoApk == [exists |-> FALSE, package |-> <<>>, version |-> <<>>, orig |-> <<>>]

ApkOf(i, f) == [exists |-> TRUE, package |-> i.package, version |-> i.version, orig |-> f]

\* The roots apk-index.py may find.
Roots ==
    {d \in [FileNames -> {NoApk} \cup {ApkOf(i, f) : i \in IndexedApps, f \in FileNames}] :
        \A f \in FileNames : d[f].exists => d[f].orig = f}

\* args.path: files of the root and the root itself, nargs="+"
ArgLists ==
    UNION {[1..n -> FileNames \cup {RootArg}] : n \in 1..MaxArgs}

\* The orders a directory listing (os.walk) can give the names S in.
Orders(S) ==
    {s \in [1..Cardinality(S) -> S] : \A i, j \in DOMAIN s : i # j => s[i] # s[j]}

IndexInit ==
    /\ index = NoIndex
    /\ indexFile = NoDoc
    /\ tmpIndex = NoDoc
    /\ cacheDir = FALSE
    /\ instDir = FALSE
    /\ cache = [p \in Paths |-> NoFile]
    /\ inst = [n \in Names |-> NoDir]
    /\ pc = "idle"
    /\ arg = NoArg
    /\ old = NoDoc
    /\ exc = FALSE
    /\ reqs = 0
    /\ result = "none"
    /\ prev = NoSnap
    /\ \E d \in Roots, a \in ArgLists :
          indexer = [at |-> "find", files |-> d, paths |-> a, found |-> <<>>,
                     meta |-> <<>>, seen |-> <<>>, saved |-> <<>>]

\* find_apk reaches a path that is not a directory: it yields it if it
\* exists, and skips it otherwise.
FindApkFile ==
    /\ indexer.at = "find"
    /\ indexer.found = <<>>
    /\ indexer.paths # <<>>
    /\ Head(indexer.paths) # RootArg
    /\ indexer' = [indexer EXCEPT
                      !.paths = Tail(@),
                      !.found = IF indexer.files[Head(indexer.paths)].exists
                                THEN <<Head(indexer.paths)>>
                                ELSE <<>>]
    /\ UNCHANGED repovars

\* find_apk reaches the directory: os.walk lists the files it holds now, in
\* an order of its own.
FindApkDir ==
    /\ indexer.at = "find"
    /\ indexer.found = <<>>
    /\ indexer.paths # <<>>
    /\ Head(indexer.paths) = RootArg
    /\ \E order \in Orders({f \in FileNames : indexer.files[f].exists}) :
          indexer' = [indexer EXCEPT !.paths = Tail(@), !.found = order]
    /\ UNCHANGED repovars

\* meta[name] = info; seen[name] = dst; info['path'] = relpath(dst, out)
Record(ix, name, info, dst) ==
    [ix EXCEPT
        !.meta = [n \in (DOMAIN ix.meta) \cup {name} |->
                     IF n = name
                     THEN [package |-> info.package, version |-> info.version,
                           path |-> dst]
                     ELSE ix.meta[n]],
        !.seen = [n \in (DOMAIN ix.seen) \cup {name} |->
                     IF n = name THEN dst ELSE ix.seen[n]]]

\* os.unlink(src)
UnlinkFile(files, src) == [files EXCEPT ![src] = NoApk]

\* os.rename(src, dst): a file at dst is replaced
RenameFile(files, src, dst) == [files EXCEPT ![dst] = files[src], ![src] = NoApk]

\* The body of "for src in find_apk(args.path)" for one src; oserror: the
\* os call of the body raises os.error.
VisitStep(ix, src, oserror) ==
    LET info == ix.files[src]
        name == ApkName(info)
        rest == [ix EXCEPT !.found = Tail(@)]
    IN IF ~info.exists THEN [rest EXCEPT !.at = "raise"]
       ELSE IF name \in DOMAIN ix.seen
       THEN IF oserror THEN rest
            ELSE [rest EXCEPT !.files = UnlinkFile(@, src)]
       ELSE IF src = name THEN Record(rest, name, info, name)
       ELSE IF oserror THEN rest
       ELSE Record([rest EXCEPT !.files = RenameFile(@, src, name)], name, info, name)

Visit ==
    /\ indexer.at = "find"
    /\ indexer.found # <<>>
    /\ \E oserror \in BOOLEAN :
          indexer' = VisitStep(indexer, Head(indexer.found), oserror)
    /\ UNCHANGED repovars

\* save_index(meta, out): the entries in the order of sorted(meta.keys())
SaveIndex ==
    /\ indexer.at = "find"
    /\ indexer.found = <<>>
    /\ indexer.paths = <<>>
    /\ \E keys \in Orders(DOMAIN indexer.meta) :
          LET names == Sorted(keys)
          IN indexer' = [indexer EXCEPT
                            !.at = "done",
                            !.saved = [k \in 1..Len(names) |-> indexer.meta[names[k]]]]
    /\ UNCHANGED repovars

IndexNext == FindApkFile \/ FindApkDir \/ Visit \/ SaveIndex

IndexSpec == IndexInit /\ [][IndexNext]_vars

\* ======================================================================
\* The claims
\* ======================================================================

\* A step in which the process is killed (nothing is returned or raised).
KilledStep == pc \notin {"idle", "done"} /\ pc' = "idle"

\* The index entry of name reports the length of the artifact served for it.
SizeCorrect(name) ==
    /\ HasPath(name)
    /\ "size" \in DOMAIN index[name]
    /\ index[name].size = ArtLen(Served(CachedPath(name)))

\* C1: from every reachable state in which an identity of the index is
\* installed, install(id, reinstall=false) reports "already installed"
\* (returns None, raises nothing) and no step of it changes the installed
\* tree or the artifact cache.  The steps after the "already installed"
\* test belong to a call that found the identity not installed.
C1_InstallIdempotent ==
    [][(/\ arg.op = "install"
        /\ ~arg.flag
        /\ arg.name \in DOMAIN index
        /\ is_installed(arg.name)
        /\ pc \notin {"idle", "done", "in_mkdir", "in_link", "in_deploy"}
        /\ ~KilledStep)
       => (/\ inst' = inst
           /\ cache' = cache
           /\ result' \in {"none", "fail"})]_vars

C3_CacheValidity ==
    /\ [](\A n \in Names :
            is_cached(n) <=>
               /\ n \in DOMAIN index
               /\ cache[index[n].path].exists
               /\ cache[index[n].path].len = index[n].size)
    /\ [][(AtGetCached /\ pc' = "dl_connect") => cache' = cache]_vars

\* C3 witness: a zero-length fragment lies at the cache path of an indexed
\* identity, which is not cached, while the other identity is cached.
C3_Witness ==
    \E n, m \in DOMAIN index :
        /\ cache[index[n].path].exists
        /\ cache[index[n].path].len = 0
        /\ ~is_cached(n)
        /\ is_cached(m)

\* C4: install hard-links the cached file only when it is valid: at the
\* os.link call is_cached(id) holds.
C4_LinkFromValidCache == (pc = "in_link") => is_cached(arg.name)

\* C4 failing input: the index entry of the identity reports a size the
\* served artifact does not have, and install is about to link the file.
C4_FailingInput ==
    /\ pc = "in_link"
    /\ ~SizeCorrect(arg.name)
    /\ cache[CachedPath(arg.name)].exists

\* C5: an update() that fails, while connecting or while reading the body,
\* on a root whose cached index loads, leaves the cached index file as it
\* was and reports failure (returns None, raises nothing).
C5_FailedUpdateKeepsIndex ==
    (pc = "done" /\ arg.op = "update" /\ LoadOutcome(old) = "ok" /\ result # "true")
       => (indexFile = old /\ result = "fail")

\* The index document on disk: at its cache location, else at the
\* temporary location under the root.
TheDoc == IF indexFile.exists THEN indexFile ELSE tmpIndex

\* C6: while clean() runs, and so after it is killed at any step, the index
\* document that was cached when clean() began is intact at its cache
\* location or at its temporary location under the root; no step of clean()
\* loses or changes the document on disk.
C6_CleanCrashSafe ==
    /\ []((arg.op = "clean" /\ old.exists) => (indexFile = old \/ tmpIndex = old))
    /\ [][((arg.op = "clean" \/ arg'.op = "clean") /\ TheDoc # NoDoc)
             => TheDoc' = TheDoc]_vars

\* C6 witness: clean() has deleted the cache directory, and the index is at
\* the temporary location only.
C6_Witness ==
    /\ pc = "cl_ensure"
    /\ ~cacheDir
    /\ old.exists
    /\ ~indexFile.exists
    /\ tmpIndex = old

\* C7: when the cached index file exists, clean() returns True and the
\* file is what it was, so load() then yields what it yielded before.
C7_CleanPreservesIndex ==
    (pc = "done" /\ arg.op = "clean" /\ old.exists)
       => /\ result = "true"
          /\ LoadOutcome(indexFile) = LoadOutcome(old)
          /\ LoadIndex(indexFile) = LoadIndex(old)

\* C7 witness: clean() has ended on a root whose index has two entries.
C7_Witness ==
    /\ pc = "done"
    /\ arg.op = "clean"
    /\ LoadOutcome(old) = "ok"
    /\ DOMAIN LoadIndex(indexFile) = Names

\* C8: from every reachable state clean() ends returning True, and then the
\* cache directory exists and holds no artifact, so that no identity is
\* cached.
C8_CleanEmptiesCache ==
    (pc = "done" /\ arg.op = "clean")
       => /\ result = "true"
          /\ cacheDir
          /\ \A p \in Paths : ~cache[p].exists
          /\ \A n \in Names : ~IsCachedIn(LoadIndex(indexFile), cache, n)

\* The successful install the claims on library deployment are about.
Installed == pc = "done" /\ arg.op = "install" /\ result = "true"

\* The lib/ directories of the artifact that was installed.
InstalledLibs == ArtLibs(ApkFile(cache, inst, arg.name).art)

\* The place of an architecture in self.abis.
Place(abi) == CHOOSE k \in 1..Len(abis) : abis[k] = abi

\* The architecture abi of the artifact is wanted, maps to another name,
\* and no directory of that name is extracted or comes from a wanted
\* architecture listed before abi.
Renamed(abi, libs, wanted) ==
    /\ abi \in libs \cap wanted \cap AbiSet
    /\ abi2isa[abi] # abi
    /\ abi2isa[abi] \notin libs
    /\ \A b \in (libs \cap wanted \cap AbiSet) \ {abi} :
          abi2isa[b] = abi2isa[abi] => Place(abi) < Place(b)

\* C9 as stated: after a successful install the lib/ directories are
\* exactly the instruction-set names of the wanted architectures the
\* artifact contains.
C9_AsStated ==
    Installed =>
        inst[arg.name].libs = {abi2isa[a] : a \in InstalledLibs \cap arg.abis \cap AbiSet}

\* C9: after a successful install, the lib/ directory of every listed
\* architecture that is not wanted is absent; a wanted architecture is under
\* its instruction-set name if it is the first listed of the wanted ones
\* mapping to that name, and under its own name otherwise; a directory of
\* an architecture self.abis does not list stays as extracted.
C9_ArchitecturePruning ==
    Installed =>
        inst[arg.name].libs =
            {abi2isa[a] : a \in {b \in InstalledLibs : Renamed(b, InstalledLibs, arg.abis)}}
            \cup {a \in InstalledLibs :
                    /\ a \in AbiSet => a \in arg.abis
                    /\ ~Renamed(a, InstalledLibs, arg.abis)}

\* C9 witness: every architecture is wanted and the artifact has two that
\* map to "arm": the first is renamed, the second stays.
C9_Witness ==
    /\ Installed
    /\ arg.abis = AbiSet
    /\ inst[arg.name].libs = {"arm", "armeabi-v7a", "riscv64"}

\* C10: an installed identity stops being installed only by uninstall of
\* it (alone or as one of 'all') or by install of it with reinstall=true; no step of clean(), of
\* update() or of a download, forced or not, ended or failed, does it.
C10_InstalledIndependentOfCache ==
    [][\A n \in Names :
          (IsInstalledIn(inst, n) /\ ~IsInstalledIn(inst', n))
             => \/ pc = "idle" /\ arg'.op = "uninstall" /\ arg'.name = n
                \/ pc = "un_all" /\ arg.op = "uninstall_all"
                \/ pc = "in_check" /\ arg.op = "install" /\ arg.flag /\ arg.name = n]_vars

\* C10 witness: clean() has ended, and an identity is installed whose
\* cached artifact is gone.
C10_Witness ==
    /\ pc = "done"
    /\ arg.op = "clean"
    /\ \E n \in Names :
          /\ inst[n].apk = "own"
          /\ \A p \in Paths : ~cache[p].exists

\* C11: whenever uninstall(id, force) has returned True, for either value of
\* force, the directory installed/<id>/ does not exist and is_installed(id)
\* is false.
C11_UninstallPostcondition ==
    (pc = "done" /\ arg.op = "uninstall" /\ result = "true")
       => (~inst[arg.name].dir /\ ~is_installed(arg.name))

\* C11 failing input: an install was killed between the creation of the
\* package directory and os.link; uninstall(id, force=True) has returned
\* True and the directory is still there.
C11_FailingInput ==
    /\ pc = "done"
    /\ arg.op = "uninstall"
    /\ arg.flag
    /\ result = "true"
    /\ inst[arg.name].dir
    /\ inst[arg.name].apk = "none"

\* C12: uninstall(id, force) of an identity that is not installed returns
\* True with force and None without (it raises nothing), and leaves the
\* installed tree, the cache and the index as they were.
C12_UninstallAbsent ==
    [][(pc = "idle" /\ arg'.op = "uninstall" /\ ~is_installed(arg'.name))
          => /\ pc' = "done"
             /\ result' = (IF arg'.flag THEN "true" ELSE "fail")
             /\ inst' = inst
             /\ cache' = cache
             /\ index' = index
             /\ indexFile' = indexFile]_vars

\* C12 witness: uninstall without force of an absent identity has reported
\* failure while another identity is installed and cached.
C12_Witness ==
    /\ pc = "done"
    /\ arg.op = "uninstall"
    /\ ~arg.flag
    /\ result = "fail"
    /\ ~is_installed(arg.name)
    /\ \E m \in Names \ {arg.name} : is_installed(m) /\ is_cached(m)

\* C13: when the uninstall of the 'all' target has ended with success, the
\* installed root exists and no package is installed under it.
C13_UninstallAll ==
    (pc = "done" /\ arg.op = "uninstall_all" /\ result = "true")
       => (instDir /\ \A n \in DOMAIN inst : ~is_installed(n))

\* C13 failing input: an installed identity is not in the index any more,
\* and the uninstall of 'all' has ended with success.
C13_FailingInput ==
    /\ pc = "done"
    /\ arg.op = "uninstall_all"
    /\ result = "true"
    /\ \E n \in DOMAIN inst : n \notin DOMAIN index /\ is_installed(n)

\* The whole artifact is at the cache path p.
Complete(c, p) == c[p] = FileOf(Served(p), ArtLen(Served(p)))

NeedsIndex == {"install", "download", "uninstall_all"}

\* A step of _ensure_index: the load when the operation begins, or a step
\* of the update it goes on to.
EnsuringIndex ==
    \/ pc = "idle" /\ arg'.op \in NeedsIndex /\ DOMAIN index = {}
    \/ pc \in {"upd_connect", "upd_read"} /\ arg.op \in NeedsIndex

\* C15: with no index in memory, an operation that needs it loads the
\* local file and contacts the remote only if that load fails; it fails
\* fatally only when the remote update has failed too, and then the cache
\* and the installed tree are as they were.
C15_LazyLoadOrUpdate ==
    [][EnsuringIndex
         => /\ (pc = "idle" /\ LoadOutcome(indexFile) = "ok")
                  => (index' = LoadIndex(indexFile) /\ pc' # "upd_connect")
            /\ (pc' = "done" /\ result' = "raise")
                  => /\ pc \in {"upd_connect", "upd_read"}
                     /\ cache' = cache
                     /\ inst' = inst]_vars

\* C16: _load_index gives failure as a value, and raises nothing, when the
\* cached index file is absent and when it is malformed; the in-memory
\* index stays as it was and _ensure_index goes on to the update.
C16_LoadFailureIsValue ==
    [][(/\ pc = "idle"
        /\ arg'.op \in NeedsIndex
        /\ DOMAIN index = {}
        /\ LoadOutcome(indexFile) # "ok")
         => /\ result' # "raise"
            /\ index' = index
            /\ pc' = "upd_connect"]_vars

\* search has returned a list.
SearchReturned == pc = "done" /\ arg.op = "search" /\ result.ok

\* The identities search has returned.
Got == {result.names[k] : k \in 1..Len(result.names)}

\* The identities of the index that match the pattern of the call and pass
\* its installed filter.
Matches ==
    {n \in DOMAIN index :
        /\ \/ Found(arg.name, n)
           \/ /\ ~arg.name_only
              /\ \E f \in {"title", "path"} :
                    f \in DOMAIN index[n] /\ Found(arg.name, index[n][f])
        /\ arg.installed => IsInstalledIn(inst, n)}

\* C17: with latest, for every package with an entry among the matches
\* exactly one entry of the package is returned, and its vercode is the
\* greatest vercode of the package's matching entries.
C17_LatestFilter ==
    (SearchReturned /\ arg.latest)
       => /\ Got \subseteq Matches
          /\ \A m \in Matches :
                /\ Cardinality({n \in Got : index[n].package = index[m].package}) = 1
                /\ \A n \in Got :
                      index[n].package = index[m].package
                         => index[n].vercode >= index[m].vercode

\* C17 witness: two entries of one package match, the one with the smaller
\* identity has the greater vercode, and it is the one returned.
C17_Witness ==
    /\ SearchReturned
    /\ arg.latest
    /\ \E m \in Matches, n \in Got :
          /\ index[n].package = index[m].package
          /\ Less(n, m)
          /\ index[n].vercode > index[m].vercode

\* C18: for every pattern and every combination of name_only, latest and
\* installed, what search returns is in strictly ascending order of
\* identity, so that no identity is in it twice; without latest it holds
\* every match; and it is the same list in whatever order the index is
\* iterated, so that a second call on the same state returns it again.
C18_SearchOrder ==
    SearchReturned
       => /\ \A i, j \in 1..Len(result.names) :
                i < j => Less(result.names[i], result.names[j])
          /\ ~arg.latest => Got = Matches
          /\ \A keys \in KeyOrders(index) :
                Search(index, inst, keys, arg.name, arg.name_only, arg.latest,
                       arg.installed) = result

\* C18 witness: search has returned two identities, the one in upper case
\* first, one of them matched by its title only.
C18_Witness ==
    /\ SearchReturned
    /\ Len(result.names) = 2
    /\ result.names[1][1] = "B"
    /\ result.names[2][1] = "a"
    /\ ~Found(arg.name, result.names[2])

\* expand_name has ended.
Expanded == pc = "done" /\ arg.op = "expand"

\* What search(name, name_only=True, latest=True, installed) gives expand_name.
ExpandSearch ==
    Search(index, inst, CHOOSE keys \in KeyOrders(index) : TRUE,
           arg.name, TRUE, TRUE, arg.installed)

\* C19: expand_name returns the name itself when it is an identity of the
\* index; otherwise the identity of the only result of the name_only and
\* latest search, and the name itself when that search has no result or
\* several.  What it returns is always the name or an identity of the index.
C19_NameExpansion ==
    Expanded
       => /\ result.ok
          /\ result.names[1] = arg.name \/ result.names[1] \in DOMAIN index
          /\ arg.name \in DOMAIN index => result.names[1] = arg.name
          /\ arg.name \notin DOMAIN index
                => result.names[1] = (IF Len(ExpandSearch.names) = 1
                                      THEN ExpandSearch.names[1]
                                      ELSE arg.name)

\* C19 failing input: the name is not a regular expression, and expand_name
\* has raised.
C19_FailingInput ==
    /\ Expanded
    /\ ~Compiles(arg.name)
    /\ ~result.ok

\* The part of C19 that holds: whenever expand_name returns, it returns
\* what the claim says.
C19_WhenItReturns ==
    (Expanded /\ result.ok)
       => /\ result.names[1] = arg.name \/ result.names[1] \in DOMAIN index
          /\ arg.name \in DOMAIN index => result.names[1] = arg.name
          /\ arg.name \notin DOMAIN index
                => result.names[1] = (IF Len(ExpandSearch.names) = 1
                                      THEN ExpandSearch.names[1]
                                      ELSE arg.name)

\* C20: install(name) or download(name), forced or not, with a name the
\* loaded index does not have ends with None ("can't find", no exception);
\* no step of it sends a request for an artifact or changes the cache or
\* the installed tree.
C20_UnresolvedName ==
    [][(/\ arg.op \in {"install", "download"}
        /\ pc \in {"dl_force", "get_cached", "dl_unlinked"}
        /\ DOMAIN index # {}
        /\ arg.name \notin DOMAIN index
        /\ ~KilledStep)
         => /\ pc' \in {"get_cached", "done"}
            /\ pc' = "done" => result' = "fail"
            /\ reqs' = 0
            /\ cache' = cache
            /\ inst' = inst]_vars

\* C20 witness: install of a name the index lost has ended with None,
\* while the artifact of that name is still cached.
C20_Witness ==
    /\ pc = "done"
    /\ arg.op = "install"
    /\ result = "fail"
    /\ DOMAIN index # {}
    /\ arg.name \notin DOMAIN index
    /\ \E p \in Paths : cache[p].exists

\* The package directory of name holds what an install with the wanted
\* architectures w leaves when nothing interrupts it.
Fresh(c, t, name, w) ==
    /\ t[name].dir
    /\ IsZip(ApkFile(c, t, name))
    /\ t[name].libs = DeployLib({}, ApkFile(c, t, name), ResolveAbis(w))

\* The package directory of name is one no uninterrupted install leaves:
\* an install of it was interrupted after the directory was created.
Interrupted(c, t, name) ==
    /\ t[name].dir
    /\ \A w \in Wanted : ~Fresh(c, t, name, w)

\* C21: install(id, reinstall=false) on a package directory an interrupted
\* install left goes on past the "already installed" test, and when it has
\* returned True the directory holds what an uninterrupted install leaves.
C21_RetryRepairs ==
    /\ [][(/\ pc = "in_check"
           /\ arg.op = "install"
           /\ ~arg.flag
           /\ Interrupted(cache, inst, arg.name)
           /\ ~KilledStep)
            => pc' = "in_mkdir"]_vars
    /\ []((Installed /\ ~arg.flag)
            => /\ inst[arg.name].apk = "link"
               /\ \E w \in Wanted :
                     /\ arg.abis = ResolveAbis(w)
                     /\ Fresh(cache, inst, arg.name, w))

\* C21 failing input: an install was killed after os.link; the retry with
\* reinstall=false has ended with None and the directory is as the killed
\* install left it.
C21_FailingInput ==
    /\ pc = "done"
    /\ arg.op = "install"
    /\ ~arg.flag
    /\ result = "fail"
    /\ is_installed(arg.name)
    /\ Interrupted(cache, inst, arg.name)

\* The part of C21 that holds: a retry on a directory without its apk (the
\* install was interrupted before os.link) goes on, and every install that
\* returns True leaves what an uninterrupted install leaves.
C21_BeforeLink ==
    /\ [][(/\ pc = "in_check"
           /\ arg.op = "install"
           /\ ~arg.flag
           /\ inst[arg.name].dir
           /\ ~is_installed(arg.name)
           /\ ~KilledStep)
            => pc' = "in_mkdir"]_vars
    /\ []((Installed /\ ~arg.flag)
            => /\ inst[arg.name].apk = "link"
               /\ \E w \in Wanted :
                     /\ arg.abis = ResolveAbis(w)
                     /\ Fresh(cache, inst, arg.name, w))

\* C22: when install(id, reinstall=true) of an installed identity has
\* ended, either it reports no success and the installation is what it was
\* when the call began, or it has returned True and the package directory
\* holds what an install into no directory leaves, nothing else.
C22_ReinstallAllOrNothing ==
    (pc = "done" /\ arg.op = "install" /\ arg.flag /\ prev.file.exists)
       => \/ /\ result # "true"
             /\ Snapshot(cache, inst, arg.name) = prev
          \/ /\ result = "true"
             /\ inst[arg.name].apk = "link"
             /\ \E w \in Wanted :
                   /\ arg.abis = ResolveAbis(w)
                   /\ Fresh(cache, inst, arg.name, w)

\* C22 failing input: the index reports a size the served artifact does
\* not have; install(id, reinstall=true) of an installed identity has ended
\* with an exception, and the installation is not what it was.
C22_FailingInput ==
    /\ pc = "done"
    /\ arg.op = "install"
    /\ arg.flag
    /\ prev.file.exists
    /\ ~SizeCorrect(arg.name)
    /\ result = "raise"
    /\ Snapshot(cache, inst, arg.name) # prev

\* The part of C22 that holds: for an identity whose index entry reports
\* the length of the served artifact.
C22_WhenSizeIsRight ==
    (pc = "done" /\ arg.op = "install" /\ arg.flag /\ prev.file.exists
       /\ SizeCorrect(arg.name))
       => \/ /\ result # "true"
             /\ Snapshot(cache, inst, arg.name) = prev
          \/ /\ result = "true"
             /\ inst[arg.name].apk = "link"
             /\ \E w \in Wanted :
                   /\ arg.abis = ResolveAbis(w)
                   /\ Fresh(cache, inst, arg.name, w)

\* C23: as long as an identity stays installed, no step (of a fetch, of a
\* forced download, of clean(), of update()) changes the content or the
\* length of its installed artifact.
C23_InstalledArtifactIsolated ==
    [][\A n \in Names :
          (IsInstalledIn(inst, n) /\ IsInstalledIn(inst', n))
             => ApkFile(cache', inst', n) = ApkFile(cache, inst, n)]_vars

\* C23 failing input: the lib/ tree of an installed identity was extracted
\* from its artifact, and the artifact is now a fragment: a fetch has
\* rewritten the cache file it is a hard link to.
C23_FailingInput ==
    \E n \in Names :
        /\ inst[n].apk = "link"
        /\ inst[n].libs # {}
        /\ ~IsZip(ApkFile(cache, inst, n))

\* The part of C23 that holds: the unlink of a forced download, every step
\* of clean() and every step of update() leave the installed artifacts as
\* they are.
C23_UnlinkAndClean ==
    [][(pc = "dl_force" \/ arg.op \in {"clean", "update"} \/ arg'.op \in {"clean", "update"})
         => \A n \in Names :
               IsInstalledIn(inst, n)
                  => ApkFile(cache', inst', n) = ApkFile(cache, inst, n)]_vars

\* C24: with latest, when two matching entries of one package have the
\* same vercode, the one returned is the one that comes first in the sorted
\* list handed to _get_latest.
C24_LatestTieBreak ==
    (SearchReturned /\ arg.latest)
       => \A n \in Got, m \in Matches :
             (/\ n # m
              /\ index[n].package = index[m].package
              /\ index[n].vercode = index[m].vercode)
                => Less(n, m)

\* C24 failing input: two matching entries of one package have the same
\* vercode, and search with latest has returned the one that comes last.
C24_FailingInput ==
    /\ SearchReturned
    /\ arg.latest
    /\ \E n \in Got, m \in Matches :
          /\ index[n].package = index[m].package
          /\ index[n].vercode = index[m].vercode
          /\ Less(m, n)

\* What the code does on a tie: the entry that comes last is the one kept.
C24_LastSeenWins ==
    (SearchReturned /\ arg.latest)
       => \A n \in Got, m \in Matches :
             (/\ n # m
              /\ index[n].package = index[m].package
              /\ index[n].vercode = index[m].vercode)
                => Less(m, n)

\* search or expand_name has ended.
Queried == pc = "done" /\ arg.op \in {"search", "expand"}

\* C25: on an index whose entries carry package, version, path and size
\* (every index of the model), search with any combination of name_only,
\* latest and installed, and expand_name, return a result for every
\* pattern that is a regular expression.
C25_MinimalEntries ==
    (Queried /\ Compiles(arg.name)) => result.ok

\* C25 failing input: no entry of the index has a title or a vercode, the
\* pattern is a regular expression, and the call has raised.
C25_FailingInput ==
    /\ Queried
    /\ Compiles(arg.name)
    /\ \A n \in DOMAIN index : DOMAIN index[n] = {"package", "version", "path", "size"}
    /\ ~result.ok

\* What holds instead: the calls return on the indexes whose entries all
\* carry a title and a vercode, and a search by name only and without latest
\* returns on every index.
C25_WithTitleAndVercode ==
    /\ (/\ Queried
        /\ Compiles(arg.name)
        /\ \A n \in DOMAIN index : {"title", "vercode"} \subseteq DOMAIN index[n])
          => result.ok
    /\ (/\ Queried
        /\ Compiles(arg.name)
        /\ arg.op = "search"
        /\ arg.name_only
        /\ ~arg.latest)
          => result.ok

\* _deploy_lib has returned.
Deployed == pc = "done" /\ arg.op = "deploy"

\* The names architectures are renamed to.
IsaDirs == {abi2isa[a] : a \in {b \in AbiSet : abi2isa[b] # b}}

\* C26: when two wanted architectures of the archive map to one
\* instruction set whose directory the archive does not hold, the files of
\* the one listed first in self.abis are under the instruction-set name and
\* the later one is in place under its own name; an instruction-set
\* directory the archive holds is there afterwards with its own files.
C26_FirstWriterWins ==
    Deployed
       => /\ \A a, b \in arg.libs \cap arg.abis \cap AbiSet :
                (/\ Place(a) < Place(b)
                 /\ abi2isa[a] = abi2isa[b]
                 /\ abi2isa[a] \notin {a, b}
                 /\ abi2isa[a] \notin arg.libs)
                   => /\ a \notin DOMAIN result
                      /\ abi2isa[a] \in DOMAIN result
                      /\ result[abi2isa[a]] = a
                      /\ b \in DOMAIN result
                      /\ result[b] = b
          /\ \A isa \in IsaDirs \cap arg.libs :
                /\ isa \in DOMAIN result
                /\ result[isa] = isa
                /\ \A a \in arg.libs \cap arg.abis \cap AbiSet :
                      abi2isa[a] = isa => (a \in DOMAIN result /\ result[a] = a)

\* C26 witness: armeabi and armeabi-v7a are in the archive and wanted, x86
\* is in the archive and not wanted: lib/arm holds the files of armeabi,
\* lib/armeabi-v7a is in place, lib/x86 is gone.
C26_Witness ==
    /\ Deployed
    /\ arg.libs = {"x86", "armeabi", "armeabi-v7a", "riscv64"}
    /\ arg.abis = {"armeabi", "armeabi-v7a"}
    /\ DOMAIN result = {"arm", "armeabi-v7a", "riscv64"}
    /\ result["arm"] = "armeabi"

\* The identities of the index the pattern of the call matches, installed
\* or not.
PatternMatches ==
    {n \in DOMAIN index :
        \/ Found(arg.name, n)
        \/ /\ ~arg.name_only
           /\ \E f \in {"title", "path"} :
                 f \in DOMAIN index[n] /\ Found(arg.name, index[n][f])}

\* C27: with installed and latest, every entry returned is an installed
\* match, and for every package with an installed match one of its
\* installed matches is returned, one of the greatest vercode among the
\* installed ones, whatever versions of the package are not installed.
C27_InstalledThenLatest ==
    (SearchReturned /\ arg.latest /\ arg.installed)
       => /\ \A n \in Got : n \in PatternMatches /\ IsInstalledIn(inst, n)
          /\ \A m \in PatternMatches :
                IsInstalledIn(inst, m)
                   => /\ \E n \in Got : index[n].package = index[m].package
                      /\ \A n \in Got :
                            index[n].package = index[m].package
                               => index[n].vercode >= index[m].vercode

\* C27 witness: the entry returned for a package is installed, and a
\* matching entry of the package with a greater vercode is not.
C27_Witness ==
    /\ SearchReturned
    /\ arg.latest
    /\ arg.installed
    /\ \E n \in Got, m \in PatternMatches :
          /\ index[n].package = index[m].package
          /\ ~IsInstalledIn(inst, m)
          /\ "vercode" \in DOMAIN index[m]
          /\ index[m].vercode > index[n].vercode

\* The index ix holds exactly the entries of the document d, each under
\* its identity (of two entries of one identity, the later one).
HoldsExactly(ix, d) ==
    /\ DOMAIN ix = {Identity(d[k]) : k \in 1..Len(d)}
    /\ \A k \in 1..Len(d) :
          (\A j \in (k + 1)..Len(d) : Identity(d[j]) # Identity(d[k]))
             => ix[Identity(d[k])] = d[k]

\* C28: the step that ends a successful update(), called by the user or by
\* _ensure_index, leaves the cached index file holding the fetched document
\* and the in-memory index holding exactly its entries, whatever the index
\* and the file held before.
C28_IndexReplacedWholesale ==
    [][(pc = "upd_read" /\ pc' # "idle" /\ result' # "raise")
         => \E d \in RemoteDocs :
               /\ indexFile' = DocFile(d)
               /\ HoldsExactly(index', d)
               /\ HoldsExactly(LoadIndex(indexFile'), d)]_vars

\* C28 witness: update() has succeeded; the index file it replaced had an
\* identity that the index does not have any more.
C28_Witness ==
    /\ pc = "done"
    /\ arg.op = "update"
    /\ result = "true"
    /\ LoadOutcome(old) = "ok"
    /\ \E n \in DOMAIN LoadIndex(old) : n \notin DOMAIN index

\* apk-index.py has written the index.
Indexed == indexer.at = "done"

\* main() is at a file whose name is in seen: a duplicate.
AtDuplicate ==
    /\ indexer.at = "find"
    /\ indexer.found # <<>>
    /\ indexer.files[Head(indexer.found)].exists
    /\ ApkName(indexer.files[Head(indexer.found)]) \in DOMAIN indexer.seen

\* C29: in the index apk-index.py has written no two entries have one
\* identity, and every path names a file that exists; the step that handles
\* a duplicate leaves the file recorded for its name as it is.
C29_IndexerConsistent ==
    /\ [](Indexed
            => /\ \A i, j \in 1..Len(indexer.saved) :
                     i # j => Identity(indexer.saved[i]) # Identity(indexer.saved[j])
               /\ \A k \in 1..Len(indexer.saved) :
                     indexer.files[indexer.saved[k].path].exists)
    /\ [][AtDuplicate
            => LET kept == indexer.seen[ApkName(indexer.files[Head(indexer.found)])]
               IN indexer'.files[kept] = indexer.files[kept]]_vars

\* C29 failing input: the index is written, and a path of it names no
\* file.
C29_FailingInput ==
    /\ Indexed
    /\ \E k \in 1..Len(indexer.saved) :
          ~indexer.files[indexer.saved[k].path].exists

\* The part of C29 that holds: no two entries of the written index have
\* one identity, and each entry is under the name of its identity.
C29_IdentitiesOnce ==
    Indexed
       => /\ \A i, j \in 1..Len(indexer.saved) :
                i # j => Identity(indexer.saved[i]) # Identity(indexer.saved[j])
          /\ \A k \in 1..Len(indexer.saved) :
                indexer.saved[k].path = ApkName(indexer.saved[k])

====
